---- MODULE Spec2Model ----
(***************************************************************************)
(* A model of the glow index engine of chromasky-toolkit:                  *)
(*   src/src/chromasky_toolkit/glow_index.py  (GlowIndexCalculator)        *)
(*                                                                         *)
(* Python floats are modelled as exact rationals [n, d] in lowest terms    *)
(* (d > 0).  Cloud fractions, scores and weights are rationals, distances  *)
(* are whole kilometres.  The values the interpolation of weather_data     *)
(* yields at a point and along the solar ray are inputs of the model: a    *)
(* sample is a value inside the covered extent, a point outside of it, or  *)
(* an interpolation that raises.                                           *)
(***************************************************************************)
EXTENDS Integers, Sequences, FiniteSets, TLC

----------------------------------------------------------------------------
(* Exact rational arithmetic standing for float arithmetic. *)

Abs(x) == IF x < 0 THEN -x ELSE x

RECURSIVE GCD(_, _)
GCD(a, b) == IF b = 0 THEN a ELSE GCD(b, a % b)

Q(n, d) ==
    LET g == GCD(Abs(n), d)
    IN  [n |-> n \div g, d |-> d \div g]

Q0 == Q(0, 1)
Q1 == Q(1, 1)

QAdd(a, b) == Q(a.n * b.d + b.n * a.d, a.d * b.d)
QSub(a, b) == Q(a.n * b.d - b.n * a.d, a.d * b.d)
QMul(a, b) == Q(a.n * b.n, a.d * b.d)
QDiv(a, b) == Q(a.n * b.d, a.d * b.n)
QLt(a, b) == a.n * b.d < b.n * a.d
QLe(a, b) == a.n * b.d <= b.n * a.d
QMax(a, b) == IF QLt(a, b) THEN b ELSE a

SetMin(S) == CHOOSE x \in S : \A y \in S : x <= y

----------------------------------------------------------------------------
(* Tunable parameters of GlowIndexCalculator. *)

CLOUD_THRESHOLD == Q(1, 10)
MAX_SEARCH_DISTANCE_KM == 500
SEARCH_STEP_KM == 10
OPTIMAL_DISTANCE_KM == 400
CLOUD_ZERO_THRESHOLD == Q(1, 10)

ALL_FACTORS == {"score_boundary", "score_hcc", "score_mcc", "score_lcc"}

DEFAULT_WEIGHTS == [score_boundary |-> Q(9, 10), score_hcc |-> Q(1, 10)]

\* __init__: self.weights is DEFAULT_WEIGHTS updated with the weights
\* argument; None and the empty dict (both the empty function here) leave
\* the defaults.  The weights are stored as given: nothing rescales them.
InitWeights(arg) ==
    [k \in DOMAIN DEFAULT_WEIGHTS \cup DOMAIN arg |->
        IF k \in DOMAIN arg THEN arg[k] ELSE DEFAULT_WEIGHTS[k]]

----------------------------------------------------------------------------
(* Sampling weather_data.  A sample is what xarray's interp meets at one    *)
(* point: kind "inside" (a value v interpolated inside the extent),        *)
(* "outside" (no data: fill_value applies) or "error" (interp raises).      *)

Inside(v) == [kind |-> "inside", v |-> v]
Outside == [kind |-> "outside", v |-> Q0]
InterpError == [kind |-> "error", v |-> Q0]

\* A point outside the extent, v the value of the nearest node of the field
\* (what an extrapolating interpolation would give there).
OutsideNear(v) == [kind |-> "outside", v |-> v]

\* As Interp, but extrapolating from the nearest node instead of filling.
InterpExtrapolating(s) == s.v

\* .interp(..., kwargs={"fill_value": 0}) where it does not raise
Interp(s) == IF s.kind = "inside" THEN s.v ELSE Q0

get_value_at_point(s) == IF s.kind = "error" THEN Q0 ELSE Interp(s)

----------------------------------------------------------------------------
(* Per-factor score functions. *)

\* As score_from_boundary_distance, without the horizon guard and the clamp.
score_from_boundary_distance_unclamped(distance_km) ==
    IF distance_km <= OPTIMAL_DISTANCE_KM
    THEN Q(distance_km, OPTIMAL_DISTANCE_KM)
    ELSE QSub(Q1, Q(distance_km - OPTIMAL_DISTANCE_KM,
                   MAX_SEARCH_DISTANCE_KM - OPTIMAL_DISTANCE_KM))

score_from_boundary_distance(distance_km) ==
    IF distance_km >= MAX_SEARCH_DISTANCE_KM THEN Q0
    ELSE IF distance_km <= OPTIMAL_DISTANCE_KM
         THEN Q(distance_km, OPTIMAL_DISTANCE_KM)
         ELSE QMax(Q0, QSub(Q1, Q(distance_km - OPTIMAL_DISTANCE_KM,
                                  MAX_SEARCH_DISTANCE_KM - OPTIMAL_DISTANCE_KM)))

\* As score_from_hcc, with the best band open at 0.4.
score_from_hcc_open_at_04(hcc) ==
    IF QLt(Q(4, 10), hcc) /\ QLe(hcc, Q(8, 10)) THEN Q1
    ELSE IF QLt(Q(8, 10), hcc) THEN Q(7, 10)
    ELSE IF QLe(Q(1, 10), hcc) /\ QLe(hcc, Q(4, 10)) THEN Q(6, 10)
    ELSE Q(1, 10)

score_from_hcc(hcc) ==
    IF QLe(Q(4, 10), hcc) /\ QLe(hcc, Q(8, 10)) THEN Q1
    ELSE IF QLt(Q(8, 10), hcc) THEN Q(7, 10)
    ELSE IF QLe(Q(1, 10), hcc) /\ QLt(hcc, Q(4, 10)) THEN Q(6, 10)
    ELSE Q(1, 10)

\* As score_from_mcc, with the 0.7 band closed at 0.5 and open at 0.8.
score_from_mcc_shifted_bands(mcc) ==
    IF QLe(Q(2, 10), mcc) /\ QLt(mcc, Q(5, 10)) THEN Q1
    ELSE IF QLe(Q(5, 10), mcc) /\ QLt(mcc, Q(8, 10)) THEN Q(7, 10)
    ELSE IF QLe(Q(8, 10), mcc) THEN Q(3, 10)
    ELSE Q(2, 10)

score_from_mcc(mcc) ==
    IF QLe(Q(2, 10), mcc) /\ QLe(mcc, Q(5, 10)) THEN Q1
    ELSE IF QLt(Q(5, 10), mcc) /\ QLe(mcc, Q(8, 10)) THEN Q(7, 10)
    ELSE IF QLt(Q(8, 10), mcc) THEN Q(3, 10)
    ELSE Q(2, 10)

\* As score_from_lcc, with every band open at its upper end.
score_from_lcc_open_bands(lcc) ==
    IF QLt(lcc, Q(1, 10)) THEN Q1
    ELSE IF QLt(lcc, Q(3, 10)) THEN Q(6, 10)
    ELSE IF QLt(lcc, Q(5, 10)) THEN Q(1, 10)
    ELSE Q0

score_from_lcc(lcc) ==
    IF QLe(lcc, Q(1, 10)) THEN Q1
    ELSE IF QLt(Q(1, 10), lcc) /\ QLe(lcc, Q(3, 10)) THEN Q(6, 10)
    ELSE IF QLt(Q(3, 10), lcc) /\ QLe(lcc, Q(5, 10)) THEN Q(1, 10)
    ELSE Q0

----------------------------------------------------------------------------
(* Cloud boundary search along the solar azimuth. *)

num_steps == MAX_SEARCH_DISTANCE_KM \div SEARCH_STEP_KM

\* np.linspace(SEARCH_STEP_KM, MAX_SEARCH_DISTANCE_KM, num_steps)[k-1]
distances(k) ==
    SEARCH_STEP_KM
      + ((k - 1) * (MAX_SEARCH_DISTANCE_KM - SEARCH_STEP_KM)) \div (num_steps - 1)

SetMax(S) == CHOOSE x \in S : \A y \in S : y <= x

\* As find_cloud_boundary_distance, but taking the last clear sample.
find_cloud_boundary_distance_last_crossing(ray) ==
    IF ~ray.ok THEN SEARCH_STEP_KM
    ELSE LET clear == {k \in 1..num_steps :
                          QLt(Interp(ray.samples[k]), CLOUD_ZERO_THRESHOLD)}
         IN  IF clear # {} THEN distances(SetMax(clear))
             ELSE MAX_SEARCH_DISTANCE_KM

\* As find_cloud_boundary_distance, but a failed interpolation counts as no
\* boundary found.
find_cloud_boundary_distance_failing_to_horizon(ray) ==
    IF ~ray.ok THEN MAX_SEARCH_DISTANCE_KM
    ELSE LET clear == {k \in 1..num_steps :
                          QLt(Interp(ray.samples[k]), CLOUD_ZERO_THRESHOLD)}
         IN  IF clear # {} THEN distances(SetMin(clear))
             ELSE MAX_SEARCH_DISTANCE_KM

\* As find_cloud_boundary_distance, but counting only samples inside the
\* covered extent as clear.
find_cloud_boundary_distance_inside_only(ray) ==
    IF ~ray.ok THEN SEARCH_STEP_KM
    ELSE LET clear == {k \in 1..num_steps :
                          /\ ray.samples[k].kind = "inside"
                          /\ QLt(ray.samples[k].v, CLOUD_ZERO_THRESHOLD)}
         IN  IF clear # {} THEN distances(SetMin(clear))
             ELSE MAX_SEARCH_DISTANCE_KM

\* ray.ok = FALSE: the batched interp raised; otherwise ray.samples[k] is the
\* sample met at distances(k).
find_cloud_boundary_distance(ray) ==
    IF ~ray.ok THEN SEARCH_STEP_KM
    ELSE LET hcc_on_ray == [k \in 1..num_steps |-> Interp(ray.samples[k])]
             true_boundary_indices ==
                 {k \in 1..num_steps : QLt(hcc_on_ray[k], CLOUD_ZERO_THRESHOLD)}
         IN  IF true_boundary_indices # {}
             THEN distances(SetMin(true_boundary_indices))
             ELSE MAX_SEARCH_DISTANCE_KM

----------------------------------------------------------------------------
(* calculate_for_point.  A point input p is what weather_data and the      *)
(* astronomy service yield for one (lat, lon, utc_time):                   *)
(*   p.hcc, p.mcc, p.lcc  the samples of the three fields at the point,    *)
(*   p.sun_ok             whether get_sun_position returns (or raises),    *)
(*   p.ray                the hcc samples along the solar azimuth.         *)
(* The result is [raised, scores]: raised = "none" and the returned dict,  *)
(* or the exception that leaves the call and no dict.                      *)

RECURSIVE QSum(_, _)
QSum(f, S) ==
    IF S = {} THEN Q0
    ELSE LET x == CHOOSE y \in S : TRUE
         IN  QAdd(f[x], QSum(f, S \ {x}))

RECURSIVE QProd(_, _)
QProd(f, S) ==
    IF S = {} THEN Q1
    ELSE LET x == CHOOSE y \in S : TRUE
         IN  QMul(f[x], QProd(f, S \ {x}))

quality_factors == {"score_boundary", "score_hcc"}
base_factors == {"score_mcc", "score_lcc"}

Raise(exc) == [raised |-> exc, scores |-> << >>]
Return(scores) == [raised |-> "none", scores |-> scores]

\* As ShortCircuit, but score_hcc is scored from the local hcc.
ShortCircuitScoringHcc(p) ==
    Return([final_score    |-> Q0,
            score_boundary |-> Q0,
            score_hcc      |-> score_from_hcc(get_value_at_point(p.hcc)),
            score_mcc      |-> score_from_mcc(get_value_at_point(p.mcc)),
            score_lcc      |-> score_from_lcc(get_value_at_point(p.lcc))])

\* As ShortCircuit, but every score of the literal dict is 0.
ShortCircuitAllZero(p) ==
    Return([final_score    |-> Q0,
            score_boundary |-> Q0,
            score_hcc      |-> Q0,
            score_mcc      |-> Q0,
            score_lcc      |-> Q0])

\* lines 151-159: the point has no high cloud of its own
ShortCircuit(p) ==
    Return([final_score    |-> Q0,
            score_boundary |-> Q0,
            score_hcc      |-> Q0,
            score_mcc      |-> score_from_mcc(get_value_at_point(p.mcc)),
            score_lcc      |-> score_from_lcc(get_value_at_point(p.lcc))])

\* lines 166-171
AllScores(p, local_hcc) ==
    [score_boundary |->
         score_from_boundary_distance(find_cloud_boundary_distance(p.ray)),
     score_hcc |-> score_from_hcc(local_hcc),
     score_mcc |-> score_from_mcc(get_value_at_point(p.mcc)),
     score_lcc |-> score_from_lcc(get_value_at_point(p.lcc))]

\* As QualityScore, but the weighted sum is not divided by the total weight.
QualityScoreUnnormalised(all_scores, factors, weights) ==
    LET used == {f \in quality_factors : f \in factors /\ f \in DOMAIN weights}
    IN  QSum([f \in used |-> QMul(all_scores[f], weights[f])], used)

\* lines 176-186
QualityScore(all_scores, factors, weights) ==
    LET used == {f \in quality_factors : f \in factors /\ f \in DOMAIN weights}
        total_quality_weight == QSum(weights, used)
        weighted_quality_score_sum ==
            QSum([f \in used |-> QMul(all_scores[f], weights[f])], used)
    IN  IF QLt(Q0, total_quality_weight)
        THEN QDiv(weighted_quality_score_sum, total_quality_weight)
        ELSE Q0

\* As BaseScore, but the product over no requested base factor is 0.
BaseScoreEmptyIsZero(all_scores, factors) ==
    IF {f \in base_factors : f \in factors} = {} THEN Q0
    ELSE QProd(all_scores, {f \in base_factors : f \in factors})

\* lines 189-193
BaseScore(all_scores, factors) ==
    QProd(all_scores, {f \in base_factors : f \in factors})

\* lines 196-199
HybridModel(all_scores, factors, weights) ==
    LET final_score ==
            QMul(QualityScore(all_scores, factors, weights),
                 BaseScore(all_scores, factors))
    IN  Return([k \in DOMAIN all_scores \cup {"final_score"} |->
                   IF k = "final_score" THEN final_score ELSE all_scores[k]])

\* As calculate_for_point, without the early return for a point that has
\* no high cloud of its own.
calculate_for_point_without_short_circuit(p, factors, weights) ==
    IF \E factor \in factors : factor \notin ALL_FACTORS
    THEN Raise("ValueError")
    ELSE LET local_hcc == get_value_at_point(p.hcc)
         IN  IF ~p.sun_ok THEN Raise("Exception")
             ELSE HybridModel(AllScores(p, local_hcc), factors, weights)

calculate_for_point(p, factors, weights) ==
    IF \E factor \in factors : factor \notin ALL_FACTORS
    THEN Raise("ValueError")
    ELSE LET local_hcc == get_value_at_point(p.hcc)
         IN  IF QLt(local_hcc, CLOUD_THRESHOLD) THEN ShortCircuit(p)
             ELSE IF ~p.sun_ok THEN Raise("Exception")
             ELSE HybridModel(AllScores(p, local_hcc), factors, weights)

----------------------------------------------------------------------------
(* The grid and the float32 output fields. *)

NumRows == 1
NumCols == 2

\* (i, j) over weather_data.latitude x weather_data.longitude
Cells == (0..(NumRows - 1)) \X (0..(NumCols - 1))

OutputFields ==
    {"final_score", "score_boundary", "score_hcc", "score_mcc", "score_lcc"}

RECURSIVE IsPowerOfTwo(_)
IsPowerOfTwo(d) ==
    IF d = 1 THEN TRUE
    ELSE IF d % 2 = 1 THEN FALSE
    ELSE IsPowerOfTwo(d \div 2)

\* results_ds[score_name][i, j] = value narrows the float64 value to the
\* field's dtype, float32.  A stored cell is [q, rounded]: the value q it was
\* given, and whether binary32 had to round it.  The values of the model have
\* small numerators, so binary32 holds q as it is exactly when q is dyadic;
\* a rounded cell no longer equals the float64 it came from.
Float32(q) == [q |-> q, rounded |-> ~IsPowerOfTwo(q.d)]

\* xr.full_like(self.weather_data['hcc'], 0.0, dtype=np.float32) per field
ZeroDataset == [f \in OutputFields |-> [c \in Cells |-> Float32(Q0)]]

\* Before calculate_for_grid there is no output Dataset.
NoDataset == << >>

\* As calculate_for_single_index, but the column index is lost on the way
\* back.
calculate_for_single_index_dropping_j(ij_tuple, wd, factors, weights) ==
    LET i == ij_tuple[1]
        r == calculate_for_point(wd[ij_tuple], factors, weights)
    IN  [raised |-> r.raised, i |-> i, j |-> 0, scores |-> r.scores]

\* The worker unit: the point input is the one at grid node (i, j), and the
\* indices come back beside the scores.
calculate_for_single_index(ij_tuple, wd, factors, weights) ==
    LET i == ij_tuple[1]
        j == ij_tuple[2]
        r == calculate_for_point(wd[<<i, j>>], factors, weights)
    IN  [raised |-> r.raised, i |-> i, j |-> j, scores |-> r.scores]

\* np.argwhere(active_mask.values)
active_indices(mask) == {c \in Cells : mask[c]}

\* As WriteScores, but only final_score is written back.
WriteScoresFinalOnly(ds, i, j, scores) ==
    [f \in DOMAIN ds |->
        IF f = "final_score" /\ f \in DOMAIN scores
        THEN [ds[f] EXCEPT ![<<i, j>>] = Float32(scores[f])]
        ELSE ds[f]]

\* As WriteScores, but indexed by the row alone: results_ds[name][i] = value.
WriteScoresWholeRow(ds, i, j, scores) ==
    [f \in DOMAIN ds |->
        IF f \in DOMAIN scores
        THEN [c \in Cells |-> IF c[1] = i THEN Float32(scores[f]) ELSE ds[f][c]]
        ELSE ds[f]]

\* As WriteScores, but a result is written only while the fields are still
\* all zero: the scores of the first written result alone are kept.
WriteScoresFirstOnly(ds, i, j, scores) ==
    IF \E f \in DOMAIN ds : \E c \in Cells : ds[f][c] # Float32(Q0)
    THEN ds
    ELSE [f \in DOMAIN ds |->
             IF f \in DOMAIN scores
             THEN [ds[f] EXCEPT ![<<i, j>>] = Float32(scores[f])]
             ELSE ds[f]]

\* lines 322-324: the scores of one collected result go to cell (i, j) of the
\* fields that exist in results_ds.
WriteScores(ds, i, j, scores) ==
    [f \in DOMAIN ds |->
        IF f \in DOMAIN scores
        THEN [ds[f] EXCEPT ![<<i, j>>] = Float32(scores[f])]
        ELSE ds[f]]

----------------------------------------------------------------------------
(* Bounded inputs. *)

\* Values of the three cloud fields met at a point, on and beside the
\* breakpoints of the score functions.
HccSamples ==
    {Inside(v) : v \in {Q(5, 100), Q(1, 10), Q(4, 10), Q(81, 100)}}
        \cup {Outside, InterpError}
MccSamples ==
    {Inside(v) : v \in {Q(3, 10), Q(9, 10)}} \cup {Outside}
LccSamples ==
    {Inside(v) : v \in {Q(5, 100), Q(2, 10), Q(6, 10)}} \cup {InterpError}

\* A ray whose samples are cloudy (0.5) except at the distances in clear
\* (0.05), and outside the covered extent from sample exit on.
MkRay(clear, exit) ==
    [ok |-> TRUE,
     samples |-> [k \in 1..num_steps |->
                     IF k >= exit THEN Outside
                     ELSE IF k \in clear THEN Inside(Q(5, 100))
                     ELSE Inside(Q(1, 2))]]
FailedRay == [ok |-> FALSE, samples |-> << >>]

Overcast == MkRay({}, num_steps + 1)
Rays ==
    {Overcast, FailedRay,
     MkRay({1}, num_steps + 1),
     MkRay({20, 21}, num_steps + 1),
     MkRay({40, 47}, num_steps + 1),
     MkRay({45}, num_steps + 1),
     MkRay({num_steps}, num_steps + 1),
     MkRay({}, 30)}

Points ==
    [hcc : HccSamples, mcc : MccSamples, lcc : LccSamples,
     sun_ok : BOOLEAN, ray : Rays]

\* The factors argument (None stands for ALL_FACTORS): every subset of the
\* factors the calculator knows, and lists naming a factor it does not.
FactorArgs ==
    (SUBSET ALL_FACTORS)
        \cup {{"score_aod550"}, ALL_FACTORS \cup {"score_aod550"},
              {"score_hcc", "score_sunshine"}}

\* The weights argument of the constructor (the empty function for None).
WeightArgs ==
    {<< >>,
     [score_boundary |-> Q1, score_hcc |-> Q1],
     [score_hcc |-> Q0],
     [score_boundary |-> Q0, score_hcc |-> Q0],
     [score_boundary |-> Q(3, 1)],
     [score_mcc |-> Q1]}

\* Grid nodes lie inside the extent.  Four kinds of node: a cloud deck
\* whose edge lies 300 km away, clear sky overhead, solid overcast,
\* and a node where the sun position cannot be computed.
NodeKinds ==
    << [hcc |-> Inside(Q(1, 2)), mcc |-> Inside(Q(3, 10)), lcc |-> Inside(Q(5, 100)),
        sun_ok |-> TRUE, ray |-> MkRay({30}, num_steps + 1)],
       [hcc |-> Inside(Q0), mcc |-> Inside(Q(3, 10)), lcc |-> Inside(Q(5, 100)),
        sun_ok |-> TRUE, ray |-> MkRay({1}, num_steps + 1)],
       [hcc |-> Inside(Q(9, 10)), mcc |-> Inside(Q(9, 10)), lcc |-> Inside(Q(2, 10)),
        sun_ok |-> TRUE, ray |-> Overcast],
       [hcc |-> Inside(Q(6, 10)), mcc |-> Inside(Q(3, 10)), lcc |-> Inside(Q(5, 100)),
        sun_ok |-> FALSE, ray |-> MkRay({20}, 30)] >>

\* Dataset k gives node (i, j) the kind at its row-major index shifted by k,
\* so every node is of every kind in one of the datasets.
Dataset(k) ==
    [c \in Cells |-> NodeKinds[((c[1] * NumCols + c[2] + k) % Len(NodeKinds)) + 1]]

\* The nodes of the uniform scenario: mcc = 0.3 and lcc = 0.05 everywhere,
\* hcc 0.5 (edge at 300 km), 0.0, 0.6 (edge at 450 km) and 0.5 (no edge
\* within the horizon).
ScenarioKinds ==
    << NodeKinds[1],
       NodeKinds[2],
       [hcc |-> Inside(Q(6, 10)), mcc |-> Inside(Q(3, 10)), lcc |-> Inside(Q(5, 100)),
        sun_ok |-> TRUE, ray |-> MkRay({45}, num_steps + 1)],
       [hcc |-> Inside(Q(1, 2)), mcc |-> Inside(Q(3, 10)), lcc |-> Inside(Q(5, 100)),
        sun_ok |-> TRUE, ray |-> Overcast] >>
ScenarioDataset ==
    [c \in Cells |->
        ScenarioKinds[((c[1] * NumCols + c[2]) % Len(ScenarioKinds)) + 1]]

Datasets ==
    {Dataset(k) : k \in 0..(Len(NodeKinds) - 1)} \cup {ScenarioDataset}

Masks == [Cells -> BOOLEAN]

GridFactorArgs ==
    {ALL_FACTORS, {"score_boundary", "score_lcc"},
     {"score_hcc", "score_sunshine"}}


----------------------------------------------------------------------------
(* State. *)

VARIABLES
    weights,        \* self.weights
    factors,        \* the factors argument of the call under way
    point,          \* the point input of a calculate_for_point call
    ret,            \* what that call gave: Pending before it is made
    weather_data,   \* self.weather_data: the point input at every grid node
    active_mask,    \* the active_mask argument of calculate_for_grid
    pc,             \* where calculate_for_grid is
    results_ds,     \* the output Dataset: field -> cell -> float32 value
    futures,        \* the future of each cell's task
    pbar,           \* the progress count
    log,            \* how many records were logged at each level
    attrs,          \* results_ds.attrs
    written,        \* history: the tasks whose scores were written to a cell
    call,           \* a call of one helper method: its name and argument
    result,         \* what that call gave
    ctor,           \* the arguments of a GlowIndexCalculator(...) call
    constructed,    \* "no" before __init__, then "yes" or the exception
    previous,       \* what the call before the one under way returned
    mask_call,      \* the arguments of a create_event_mask call
    mask_grid,      \* its mask_grid
    event_times,    \* what _calculate_single_event_time gave for each cell
    mask_pc,        \* where create_event_mask is
    mask_pos        \* how many cells its loop has done (pbar of the loop)

pointVars == <<point, ret>>
fnVars == <<call, result>>
ctorVars == <<ctor, constructed>>
gridVars == <<weather_data, active_mask, pc, results_ds, futures, pbar, log,
              attrs, written>>
maskVars == <<mask_call, mask_grid, event_times, mask_pc, mask_pos>>
vars == <<weights, factors, pointVars, gridVars, fnVars, ctorVars, previous,
          maskVars>>

Pending == [raised |-> "pending", scores |-> << >>]

(* SpecPoint: one call of calculate_for_point on a constructed calculator. *)

NoFuture == [state |-> "none", result |-> Pending]
NoLog == [info |-> 0, warning |-> 0, error |-> 0]

GridIdle ==
    /\ pc = "idle"
    /\ results_ds = NoDataset
    /\ futures = [c \in Cells |-> NoFuture]
    /\ pbar = 0
    /\ log = NoLog
    /\ attrs = {}
    /\ written = [c \in Cells |-> {}]

\* No helper call is under way.
NoArgs == [fn |-> "none", q |-> Q0, km |-> 0, sample |-> Outside, ray |-> FailedRay]
NoResult == [done |-> FALSE, raised |-> "none", q |-> Q0, km |-> 0]
FnIdle == call = NoArgs /\ result = NoResult

\* The calculator in use was constructed (Init of SpecPoint and SpecGrid
\* is the state after __init__).
NoCtor == [data_vars |-> {}, weights |-> << >>]
AlreadyConstructed == ctor = NoCtor /\ constructed = "yes"

\* No create_event_mask call is under way, and no call came before the
\* one under way.
NoMaskCall ==
    [solver |-> << >>, target_utc_time |-> 0, event |-> "none",
     window_minutes |-> 0]
NoMask == << >>
MaskIdle ==
    /\ mask_call = NoMaskCall
    /\ mask_grid = NoMask
    /\ event_times = << >>
    /\ mask_pc = "idle"
    /\ mask_pos = 0
NoPrevious == previous = NoDataset

InitPoint ==
    /\ weights \in {InitWeights(w) : w \in WeightArgs}
    /\ factors \in FactorArgs
    /\ point \in Points
    /\ ret = Pending
    /\ weather_data = Dataset(0)
    /\ active_mask = [c \in Cells |-> FALSE]
    /\ GridIdle
    /\ FnIdle
    /\ AlreadyConstructed
    /\ NoPrevious
    /\ MaskIdle

CallPoint ==
    /\ ret = Pending
    /\ ret' = calculate_for_point(point, factors, weights)
    /\ UNCHANGED <<previous, maskVars, fnVars, ctorVars, weights, factors, point, gridVars>>

NextPoint == CallPoint

SpecPoint == InitPoint /\ [][NextPoint]_vars

----------------------------------------------------------------------------
(* SpecGrid: one call of calculate_for_grid.  The orchestrator submits one  *)
(* task per active cell to the process pool, the workers run the tasks in  *)
(* any order, and the orchestrator collects each finished future in the    *)
(* order as_completed yields them.                                         *)

InitGrid ==
    /\ weights = InitWeights(<< >>)
    /\ factors \in GridFactorArgs
    /\ point = NodeKinds[1]
    /\ ret = Pending
    /\ weather_data \in Datasets
    /\ active_mask \in Masks
    /\ GridIdle
    /\ FnIdle
    /\ AlreadyConstructed
    /\ NoPrevious
    /\ MaskIdle

\* As StartGrid, without the early return for an empty list of indices.
StartGridWithoutEmptyCheck ==
    /\ pc = "idle"
    /\ results_ds' = ZeroDataset
    /\ log' = [log EXCEPT !.info = @ + 2]
    /\ pc' = "collecting"
    /\ futures' = [c \in Cells |->
                      IF c \in active_indices(active_mask)
                      THEN [state |-> "pending", result |-> Pending]
                      ELSE NoFuture]
    /\ UNCHANGED <<previous, maskVars, fnVars, ctorVars, weights, factors, pointVars, weather_data, active_mask,
                   pbar, attrs, written>>

\* lines 285-313: create the zero-filled output; with no active index warn
\* and return it, otherwise submit one task per active index.
StartGrid ==
    /\ pc = "idle"
    /\ results_ds' = ZeroDataset
    /\ IF active_indices(active_mask) = {}
       THEN /\ log' = [log EXCEPT !.info = @ + 1, !.warning = @ + 1]
            /\ pc' = "returned"
            /\ UNCHANGED futures
       ELSE /\ log' = [log EXCEPT !.info = @ + 2]
            /\ pc' = "collecting"
            /\ futures' = [c \in Cells |->
                              IF c \in active_indices(active_mask)
                              THEN [state |-> "pending", result |-> Pending]
                              ELSE NoFuture]
    /\ UNCHANGED <<previous, maskVars, fnVars, ctorVars, weights, factors, pointVars, weather_data, active_mask,
                   pbar, attrs, written>>

\* A worker process runs the task of cell c; its return value or its
\* exception is kept in the future.
RunTask(c) ==
    /\ pc = "collecting"
    /\ futures[c].state = "pending"
    /\ futures' = [futures EXCEPT ![c] =
           [state |-> "finished",
            result |-> calculate_for_single_index(c, weather_data, factors,
                                                  weights)]]
    /\ UNCHANGED <<previous, maskVars, fnVars, ctorVars, weights, factors, pointVars, weather_data, active_mask,
                   pc, results_ds, pbar, log, attrs, written>>

\* As Collect, without the try/except around future.result(): the task's
\* exception leaves calculate_for_grid.
CollectWithoutExcept(c) ==
    /\ pc = "collecting"
    /\ futures[c].state = "finished"
    /\ LET r == futures[c].result
       IN  IF r.raised = "none"
           THEN /\ results_ds' = WriteScores(results_ds, r.i, r.j, r.scores)
                /\ written' = [written EXCEPT ![<<r.i, r.j>>] = @ \cup {c}]
                /\ pc' = pc
           ELSE /\ pc' = "raised"
                /\ UNCHANGED <<results_ds, written>>
    /\ pbar' = pbar + 1
    /\ futures' = [futures EXCEPT ![c].state = "collected"]
    /\ UNCHANGED <<previous, maskVars, fnVars, ctorVars, weights, factors, pointVars, weather_data, active_mask,
                   log, attrs>>

\* As Collect, but as_completed yields only the futures that hold a
\* result: a future that holds an exception is never collected.
CollectSuccessesOnly(c) ==
    /\ pc = "collecting"
    /\ futures[c].state = "finished"
    /\ futures[c].result.raised = "none"
    /\ LET r == futures[c].result
       IN  /\ results_ds' = WriteScores(results_ds, r.i, r.j, r.scores)
           /\ written' = [written EXCEPT ![<<r.i, r.j>>] = @ \cup {c}]
    /\ pbar' = pbar + 1
    /\ futures' = [futures EXCEPT ![c].state = "collected"]
    /\ UNCHANGED <<previous, maskVars, fnVars, ctorVars, weights, factors, pointVars, weather_data, active_mask,
                   pc, log, attrs>>

\* lines 318-328: as_completed yields the finished future of cell c.
Collect(c) ==
    /\ pc = "collecting"
    /\ futures[c].state = "finished"
    /\ LET r == futures[c].result
       IN  IF r.raised = "none"
           THEN /\ results_ds' = WriteScores(results_ds, r.i, r.j, r.scores)
                /\ written' = [written EXCEPT ![<<r.i, r.j>>] = @ \cup {c}]
                /\ UNCHANGED log
           ELSE /\ log' = [log EXCEPT !.error = @ + 1]
                /\ UNCHANGED <<results_ds, written>>
    /\ pbar' = pbar + 1
    /\ futures' = [futures EXCEPT ![c].state = "collected"]
    /\ UNCHANGED <<previous, maskVars, fnVars, ctorVars, weights, factors, pointVars, weather_data, active_mask,
                   pc, attrs>>

\* lines 330-334: every future was collected.
FinishGrid ==
    /\ pc = "collecting"
    /\ \A c \in Cells : futures[c].state \in {"none", "collected"}
    /\ attrs' = {"factors_used", "parallel_computation"}
    /\ log' = [log EXCEPT !.info = @ + 1]
    /\ pc' = "returned"
    /\ UNCHANGED <<previous, maskVars, fnVars, ctorVars, weights, factors, pointVars, weather_data, active_mask,
                   results_ds, futures, pbar, written>>

NextGrid ==
    \/ StartGrid
    \/ \E c \in Cells : RunTask(c)
    \/ \E c \in Cells : Collect(c)
    \/ FinishGrid

SpecGrid == InitGrid /\ [][NextGrid]_vars

\* The steps of the orchestrator (the process that called calculate_for_grid).
Orchestrator ==
    \/ StartGrid
    \/ \E c \in Cells : Collect(c)
    \/ FinishGrid

\* The orchestrator goes on whenever it can (the as_completed loop blocks
\* only while no future is finished), and the pool leaves no submitted task
\* pending for ever: no task of calculate_for_point loops.  The second
\* conjunct is weak fairness of the workers, said of the futures.
SpecGridFair ==
    /\ SpecGrid
    /\ WF_vars(Orchestrator)
    /\ []<>(\A c \in Cells : futures[c].state # "pending")

----------------------------------------------------------------------------
(* SpecGridTwice: calculate_for_grid is called, and once it has returned   *)
(* it is called again with the same arguments on the same calculator.      *)

InitGridTwice ==
    /\ InitGrid
    /\ factors = ALL_FACTORS

\* The caller keeps the returned Dataset and makes the same call again: a
\* new call has its own results_ds, futures and progress bar.
CallGridAgain ==
    /\ pc = "returned"
    /\ previous = NoDataset
    /\ previous' = results_ds
    /\ pc' = "idle"
    /\ results_ds' = NoDataset
    /\ futures' = [c \in Cells |-> NoFuture]
    /\ pbar' = 0
    /\ log' = NoLog
    /\ attrs' = {}
    /\ written' = [c \in Cells |-> {}]
    /\ UNCHANGED <<maskVars, fnVars, ctorVars, weights, factors, pointVars,
                   weather_data, active_mask>>

NextGridTwice ==
    \/ NextGrid
    \/ CallGridAgain

SpecGridTwice == InitGridTwice /\ [][NextGridTwice]_vars

----------------------------------------------------------------------------
(* SpecFn: one call of one helper method of a constructed calculator: the   *)
(* field sampler, the cloud boundary search or a score function.           *)

MaxHundredths == 100
MaxDistanceSteps == 120

\* Cloud fractions 0.00, 0.01, ... and distances 0, 5, 10, ... km
Fractions == {Q(k, 100) : k \in 0..MaxHundredths}
DistancesKm == {5 * k : k \in 0..MaxDistanceSteps}

FnSamples ==
    {Inside(Q(k, 10)) : k \in 0..10}
        \cup {OutsideNear(Q(k, 10)) : k \in 0..10}
        \cup {InterpError}

\* A ray of samples of value cloudy, except value clear_v at the distances
\* in clear, that leaves the extent (with the deck's value at the edge) from
\* sample exit on.
MkRayOf(cloudy, clear, clear_v, exit) ==
    [ok |-> TRUE,
     samples |-> [k \in 1..num_steps |->
                     IF k >= exit THEN OutsideNear(cloudy)
                     ELSE IF k \in clear THEN Inside(clear_v)
                     ELSE Inside(cloudy)]]

ClearSets == {{}, {1}, {2, 3}, {20, 21, 35}, {40, 47}, {num_steps}}
Exits == {1, 2, 15, 30, 45, num_steps, num_steps + 1}

FnRays ==
    {FailedRay}
        \cup {MkRayOf(Q(1, 2), cl, Q(5, 100), e) : cl \in ClearSets, e \in Exits}
        \cup {MkRayOf(Q(1, 10), cl, Q(9, 100), num_steps + 1) : cl \in ClearSets}
        \cup {MkRayOf(Q1, cl, Q0, num_steps + 1) : cl \in ClearSets}

Calls ==
    {[NoArgs EXCEPT !.fn = "get_value_at_point", !.sample = x] : x \in FnSamples}
        \cup {[NoArgs EXCEPT !.fn = "find_cloud_boundary_distance", !.ray = r] :
                 r \in FnRays}
        \cup {[NoArgs EXCEPT !.fn = "score_from_boundary_distance", !.km = d] :
                 d \in DistancesKm}
        \cup {[NoArgs EXCEPT !.fn = f, !.q = v] :
                 f \in {"score_from_hcc", "score_from_mcc", "score_from_lcc"},
                 v \in Fractions}

InitFn ==
    /\ weights = InitWeights(<< >>)
    /\ factors = ALL_FACTORS
    /\ point = NodeKinds[1]
    /\ ret = Pending
    /\ weather_data = Dataset(0)
    /\ active_mask = [c \in Cells |-> FALSE]
    /\ GridIdle
    /\ call \in Calls
    /\ result = NoResult
    /\ AlreadyConstructed
    /\ NoPrevious
    /\ MaskIdle

GiveQ(v) == [NoResult EXCEPT !.done = TRUE, !.q = v]
GiveKm(d) == [NoResult EXCEPT !.done = TRUE, !.km = d]

Unanswered(fn) == call.fn = fn /\ ~result.done
FnFrame ==
    UNCHANGED <<call, previous, maskVars, ctorVars, weights, factors, pointVars,
                gridVars>>

\* _get_value_at_point: the try/except leaves nothing to raise.
SampleField ==
    /\ Unanswered("get_value_at_point")
    /\ result' = GiveQ(get_value_at_point(call.sample))
    /\ FnFrame

FindBoundary ==
    /\ Unanswered("find_cloud_boundary_distance")
    /\ result' = GiveKm(find_cloud_boundary_distance(call.ray))
    /\ FnFrame

ScoreBoundary ==
    /\ Unanswered("score_from_boundary_distance")
    /\ result' = GiveQ(score_from_boundary_distance(call.km))
    /\ FnFrame

ScoreHcc ==
    /\ Unanswered("score_from_hcc")
    /\ result' = GiveQ(score_from_hcc(call.q))
    /\ FnFrame

ScoreMcc ==
    /\ Unanswered("score_from_mcc")
    /\ result' = GiveQ(score_from_mcc(call.q))
    /\ FnFrame

ScoreLcc ==
    /\ Unanswered("score_from_lcc")
    /\ result' = GiveQ(score_from_lcc(call.q))
    /\ FnFrame

NextFn ==
    \/ SampleField
    \/ FindBoundary
    \/ ScoreBoundary
    \/ ScoreHcc
    \/ ScoreMcc
    \/ ScoreLcc

SpecFn == InitFn /\ [][NextFn]_vars

----------------------------------------------------------------------------
(* SpecInit: one call of GlowIndexCalculator(weather_data, weights).       *)

required_vars == {"hcc", "mcc", "lcc"}

\* The variables a dataset may hold, and the constructor calls tried.
InputFields == {"hcc", "mcc", "lcc", "aod550"}
CtorArgs == [data_vars : SUBSET InputFields, weights : WeightArgs]

InitCtor ==
    /\ weights = << >>
    /\ factors = ALL_FACTORS
    /\ point = NodeKinds[1]
    /\ ret = Pending
    /\ weather_data = Dataset(0)
    /\ active_mask = [c \in Cells |-> FALSE]
    /\ GridIdle
    /\ FnIdle
    /\ ctor \in CtorArgs
    /\ constructed = "no"
    /\ NoPrevious
    /\ MaskIdle

\* __init__, lines 41-53
Construct ==
    /\ constructed = "no"
    /\ IF ~(required_vars \subseteq ctor.data_vars)
       THEN /\ constructed' = "KeyError"
            /\ UNCHANGED weights
       ELSE /\ weights' = InitWeights(ctor.weights)
            /\ constructed' = "yes"
    /\ UNCHANGED <<ctor, previous, maskVars, fnVars, factors, pointVars, gridVars>>

NextCtor == Construct

SpecInit == InitCtor /\ [][NextCtor]_vars

----------------------------------------------------------------------------
(* AstronomyService (astronomy.py).  Instants are whole seconds since the  *)
(* start of day 0, UTC.  What pyephem's next_rising and next_setting give  *)
(* at a node, searching from 00:00 UTC of the target date, is an input: an *)
(* instant at or after that midnight, AlwaysUpError, NeverUpError or       *)
(* another exception.                                                      *)

SecondsPerMinute == 60
SecondsPerDay == 86400

\* datetime.date() of an instant, and instant h:m:s of a day
DateOf(t) == t \div SecondsPerDay
At(day, h, m, sec) ==
    day * SecondsPerDay + (h * 60 + m) * SecondsPerMinute + sec

Occurs(t) == [kind |-> "time", t |-> t]
AlwaysUpError == [kind |-> "AlwaysUpError", t |-> 0]
NeverUpError == [kind |-> "NeverUpError", t |-> 0]
SolverException == [kind |-> "Exception", t |-> 0]

\* What _calculate_single_event_time gives: None, a datetime, or (in no
\* path of the code) an exception that leaves it.
None == [raised |-> "none", kind |-> "None", t |-> 0]
Datetime(t) == [raised |-> "none", kind |-> "datetime", t |-> t]
Unset == [raised |-> "none", kind |-> "unset", t |-> 0]

\* As calculate_single_event_time, without the comparison of the dates.
calculate_single_event_time_without_date_check(node, target_date, event) ==
    LET event_time_pyephem ==
            IF event = "sunrise" THEN node.next_rising ELSE node.next_setting
    IN  IF event_time_pyephem.kind \in {"AlwaysUpError", "NeverUpError"}
        THEN None
        ELSE IF event_time_pyephem.kind # "time" THEN None
        ELSE Datetime(event_time_pyephem.t)

\* lines 37-52
calculate_single_event_time(node, target_date, event) ==
    LET event_time_pyephem ==
            IF event = "sunrise" THEN node.next_rising ELSE node.next_setting
    IN  IF event_time_pyephem.kind \in {"AlwaysUpError", "NeverUpError"}
        THEN None
        ELSE IF event_time_pyephem.kind # "time" THEN None
        ELSE LET utc_dt == event_time_pyephem.t
             IN  IF DateOf(utc_dt) # target_date THEN None
                 ELSE Datetime(utc_dt)

\* As within_window, without abs(): an event before the target instant is
\* inside every window.
within_window_without_abs(event_time_utc, target_utc_time, time_window) ==
    /\ event_time_utc.kind = "datetime"
    /\ event_time_utc.t - target_utc_time <= time_window

\* As within_window, with the comparison turned round.
within_window_inverted(event_time_utc, target_utc_time, time_window) ==
    /\ event_time_utc.kind = "datetime"
    /\ Abs(event_time_utc.t - target_utc_time) >= time_window

\* line 73: event_time_utc and abs(event_time_utc - target_utc_time) <= time_window
within_window(event_time_utc, target_utc_time, time_window) ==
    /\ event_time_utc.kind = "datetime"
    /\ Abs(event_time_utc.t - target_utc_time) <= time_window

\* Bounded inputs: the target instants lie on day 1; a node is what the
\* solver gives there for sunrise and for sunset.
MaxWindowSteps == 2
WindowArgs == {30 * k : k \in 0..MaxWindowSteps}
TargetTimes == {At(1, 0, 20, 0), At(1, 6, 0, 0), At(1, 23, 40, 0)}

SolverKinds ==
    << [next_rising |-> Occurs(At(1, 6, 0, 0)),  next_setting |-> Occurs(At(1, 18, 0, 0))],
       [next_rising |-> Occurs(At(1, 5, 0, 0)),  next_setting |-> Occurs(At(1, 23, 59, 59))],
       [next_rising |-> Occurs(At(1, 4, 59, 59)), next_setting |-> Occurs(At(2, 0, 0, 10))],
       [next_rising |-> AlwaysUpError,           next_setting |-> AlwaysUpError],
       [next_rising |-> NeverUpError,            next_setting |-> NeverUpError],
       [next_rising |-> Occurs(At(1, 0, 0, 0)),  next_setting |-> Occurs(At(1, 0, 50, 0))],
       [next_rising |-> SolverException,         next_setting |-> Occurs(At(1, 23, 10, 0))],
       [next_rising |-> Occurs(At(1, 6, 30, 1)), next_setting |-> SolverException],
       [next_rising |-> Occurs(At(2, 5, 0, 0)),  next_setting |-> Occurs(At(1, 0, 50, 1))] >>

SolverGrid(k) ==
    [c \in Cells |->
        SolverKinds[((c[1] * NumCols + c[2] + k) % Len(SolverKinds)) + 1]]

MaskCalls ==
    [solver : {SolverGrid(k) : k \in 0..(Len(SolverKinds) - 1)},
     target_utc_time : TargetTimes,
     event : {"sunrise", "sunset"},
     window_minutes : WindowArgs]

(* SpecMask: a call of create_event_mask, and once it has returned a      *)
(* second call for the same grid, instant and event with a window that is *)
(* at least as wide.                                                      *)

InitMask ==
    /\ weights = InitWeights(<< >>)
    /\ factors = ALL_FACTORS
    /\ point = NodeKinds[1]
    /\ ret = Pending
    /\ weather_data = Dataset(0)
    /\ active_mask = [c \in Cells |-> FALSE]
    /\ GridIdle
    /\ FnIdle
    /\ AlreadyConstructed
    /\ NoPrevious
    /\ mask_call \in MaskCalls
    /\ mask_grid = NoMask
    /\ event_times = << >>
    /\ mask_pc = "idle"
    /\ mask_pos = 0

MaskFrame ==
    UNCHANGED <<fnVars, ctorVars, weights, factors, pointVars, gridVars>>

\* lines 65-67: mask_grid = np.full(..., False)
StartMask ==
    /\ mask_pc = "idle"
    /\ mask_grid' = [c \in Cells |-> FALSE]
    /\ event_times' = [c \in Cells |-> Unset]
    /\ mask_pos' = 0
    /\ mask_pc' = "loop"
    /\ UNCHANGED <<mask_call, previous>>
    /\ MaskFrame

\* lines 70-75: one iteration of the loops over lats and lons, in row-major
\* order.  create_event_mask has no try: an exception of the event time
\* would leave it.
MaskCell ==
    /\ mask_pc = "loop"
    /\ mask_pos < Cardinality(Cells)
    /\ LET c == <<mask_pos \div NumCols, mask_pos % NumCols>>
           target_date == DateOf(mask_call.target_utc_time)
           time_window == mask_call.window_minutes * SecondsPerMinute
           event_time_utc ==
               calculate_single_event_time(mask_call.solver[c], target_date,
                                           mask_call.event)
       IN  IF event_time_utc.raised # "none"
           THEN /\ mask_pc' = "raised"
                /\ UNCHANGED <<mask_grid, event_times, mask_pos>>
           ELSE /\ event_times' = [event_times EXCEPT ![c] = event_time_utc]
                /\ mask_grid' =
                       IF within_window(event_time_utc,
                                        mask_call.target_utc_time, time_window)
                       THEN [mask_grid EXCEPT ![c] = TRUE]
                       ELSE mask_grid
                /\ mask_pos' = mask_pos + 1
                /\ UNCHANGED mask_pc
    /\ UNCHANGED <<mask_call, previous>>
    /\ MaskFrame

\* lines 77-81
ReturnMask ==
    /\ mask_pc = "loop"
    /\ mask_pos = Cardinality(Cells)
    /\ mask_pc' = "returned"
    /\ UNCHANGED <<mask_call, mask_grid, event_times, mask_pos, previous>>
    /\ MaskFrame

\* The caller keeps the mask and asks again with a window w at least as
\* wide.
CallMaskWider ==
    /\ mask_pc = "returned"
    /\ previous = NoDataset
    /\ \E w \in WindowArgs :
           /\ w >= mask_call.window_minutes
           /\ mask_call' = [mask_call EXCEPT !.window_minutes = w]
    /\ previous' = mask_grid
    /\ mask_grid' = NoMask
    /\ event_times' = << >>
    /\ mask_pos' = 0
    /\ mask_pc' = "idle"
    /\ MaskFrame

NextMask ==
    \/ StartMask
    \/ MaskCell
    \/ ReturnMask
    \/ CallMaskWider

SpecMask == InitMask /\ [][NextMask]_vars

----------------------------------------------------------------------------
(* Claims about calculate_for_point, checked under SpecPoint. *)

Called == ret # Pending
Returned == ret.raised = "none"
ValidFactors == factors \subseteq ALL_FACTORS
LocalHccClear == QLt(get_value_at_point(point.hcc), CLOUD_THRESHOLD)

\* C1: a point whose interpolated hcc is below clear_threshold gets
\* final_score = 0, score_boundary = 0 and score_hcc = 0, whatever its mcc
\* and lcc and whatever (valid) factor subset was requested.
C1_ClearSkyScoresZero ==
    (Called /\ ValidFactors /\ LocalHccClear)
        => /\ Returned
           /\ ret.scores.final_score = Q0
           /\ ret.scores.score_boundary = Q0
           /\ ret.scores.score_hcc = Q0

\* The short-circuit has acted on a point whose other factors are at their
\* best, for a factor subset that leaves hcc out.
C1_Witness ==
    /\ Called /\ Returned /\ LocalHccClear
    /\ point.hcc = Inside(Q(5, 100))
    /\ point.mcc = Inside(Q(3, 10))
    /\ point.lcc = Inside(Q(5, 100))
    /\ factors = {"score_mcc", "score_lcc"}
    /\ ret.scores.final_score = Q0

\* C2: on the short-circuit path the result still holds score_mcc, score_lcc
\* and score_aod550, each computed from the local value by its score
\* function.  The calculator has no aod550 score: the key is absent.
C2_ShortCircuitDiagnostics ==
    (Called /\ ValidFactors /\ LocalHccClear)
        => /\ Returned
           /\ {"score_mcc", "score_lcc", "score_aod550"} \subseteq DOMAIN ret.scores
           /\ ret.scores.score_mcc = score_from_mcc(get_value_at_point(point.mcc))
           /\ ret.scores.score_lcc = score_from_lcc(get_value_at_point(point.lcc))

\* The combination rule as the claim states it: the quality factors are
\* score_boundary, score_hcc and score_mcc, the penalty factors score_lcc and
\* score_aod550.
ClaimedQualityFactors == {"score_boundary", "score_hcc", "score_mcc"}
ClaimedPenaltyFactors == {"score_lcc", "score_aod550"}

ClaimedFinalScore(scores) ==
    LET used == {f \in ClaimedQualityFactors :
                    f \in factors /\ f \in DOMAIN weights}
        total == QSum(weights, used)
        quality == IF QLt(Q0, total)
                   THEN QDiv(QSum([f \in used |-> QMul(scores[f], weights[f])],
                                  used), total)
                   ELSE Q0
        penalty == QProd(scores, {f \in ClaimedPenaltyFactors : f \in factors})
    IN  QMul(quality, penalty)

\* C3: for a point that is not short-circuited, final_score = quality_score
\* x penalty_score, quality_score the weight-normalised average of the
\* requested quality factors (score_boundary, score_hcc, score_mcc) and
\* penalty_score the product of the requested penalty factors (score_lcc,
\* score_aod550).
C3_HybridCombination ==
    (Called /\ Returned /\ ~LocalHccClear)
        => ret.scores.final_score = ClaimedFinalScore(ret.scores)

\* C4: every value calculate_for_point returns, each sub-score and
\* final_score, lies in [0, 1].
C4_ScoresInUnitInterval ==
    (Called /\ Returned)
        => \A k \in DOMAIN ret.scores :
               QLe(Q0, ret.scores[k]) /\ QLe(ret.scores[k], Q1)

\* The hybrid model has acted under weights that do not sum to 1 and gave a
\* final score strictly between 0 and 1.
C4_Witness ==
    /\ Called /\ Returned /\ ~LocalHccClear
    /\ weights.score_boundary = Q(3, 1)
    /\ factors = ALL_FACTORS
    /\ QLt(Q0, ret.scores.final_score)
    /\ QLt(ret.scores.final_score, Q1)

----------------------------------------------------------------------------
(* Claims about calculate_for_grid, checked under SpecGrid. *)

Active == active_indices(active_mask)
GridReturned == pc = "returned"
IsZero(c) == \A f \in OutputFields : results_ds[f][c] = Float32(Q0)

\* What calculate_for_point gives for the (lat, lon) of cell c.
PointResult(c) == calculate_for_point(weather_data[c], factors, weights)
TaskSucceeded(c) == PointResult(c).raised = "none"

\* C5: an unrecognised factor name in the factor subset of a grid evaluation
\* is rejected before any per-cell work is started, and no result bundle is
\* returned.
C5_UnknownFactorRejected ==
    (\E f \in factors : f \notin ALL_FACTORS \cup {"score_aod550"})
        => /\ ~GridReturned
           /\ \A c \in Cells : futures[c].state = "none"

\* C6: a failing task does not abort the batch: the failure is logged, the
\* task's cell keeps 0 in every output field, and every other active cell's
\* task is still run, collected and written.
C6_FailureIsolated ==
    /\ pc # "raised"
    /\ (GridReturned /\ Active # {})
          => /\ \A c \in Active : futures[c].state = "collected"
             /\ pbar = Cardinality(Active)
             /\ log.error = Cardinality({c \in Active : ~TaskSucceeded(c)})
             /\ \A c \in Active : ~TaskSucceeded(c) => IsZero(c)
             /\ \A c \in Active :
                    TaskSucceeded(c)
                        => /\ c \in written[c]
                           /\ results_ds["score_mcc"][c]
                                  = Float32(PointResult(c).scores.score_mcc)

\* The batch has returned after one task failed (the factors were valid) and
\* another succeeded and was written.
C6_Witness ==
    /\ GridReturned
    /\ factors = ALL_FACTORS
    /\ \E c \in Active : ~TaskSucceeded(c) /\ IsZero(c)
    /\ \E c \in Active : TaskSucceeded(c) /\ ~IsZero(c)

\* A float32 cell holds exactly the float64 value v.
HoldsExactly(cell, v) == cell.q = v /\ ~cell.rounded

\* C7: after calculate_for_grid returns, every inactive cell holds 0 in every
\* output field, and every active cell whose task succeeded holds, in every
\* output field, exactly the value calculate_for_point produced.
C7_CellsHoldPointValues ==
    GridReturned
        => \A c \in Cells :
               /\ ~active_mask[c] => IsZero(c)
               /\ (active_mask[c] /\ TaskSucceeded(c))
                     => \A f \in OutputFields :
                            HoldsExactly(results_ds[f][c], PointResult(c).scores[f])

\* C7 as amended: the cell holds the float32 rounding of the value
\* calculate_for_point produced.
C7_CellsHoldFloat32OfPointValues ==
    GridReturned
        => \A c \in Cells :
               /\ ~active_mask[c] => IsZero(c)
               /\ (active_mask[c] /\ TaskSucceeded(c))
                     => \A f \in OutputFields :
                            results_ds[f][c] = Float32(PointResult(c).scores[f])

\* The evaluation has returned with an inactive cell beside an active one
\* whose final score binary32 had to round.
C7_Witness ==
    /\ GridReturned
    /\ \E c \in Cells : ~active_mask[c]
    /\ \E c \in Active :
           /\ TaskSucceeded(c)
           /\ results_ds["final_score"][c].rounded
           /\ results_ds["score_boundary"][c] = Float32(Q(3, 4))

\* The output as a function of the inputs alone.
ExpectedOutput ==
    [f \in OutputFields |->
        [c \in Cells |->
            IF active_mask[c] /\ TaskSucceeded(c)
            THEN Float32(PointResult(c).scores[f])
            ELSE Float32(Q0)]]

\* C8: the output does not depend on the order in which the tasks complete:
\* at every moment a cell holds what its own task gave if that task was
\* collected and 0 otherwise, so the returned fields are a function of the
\* inputs alone.
C8_OrderIndependent ==
    /\ pc = "collecting"
          => \A c \in Cells : \A f \in OutputFields :
                 results_ds[f][c] =
                     IF futures[c].state = "collected"
                     THEN ExpectedOutput[f][c]
                     ELSE Float32(Q0)
    /\ GridReturned => results_ds = ExpectedOutput

\* The last submitted task was collected and written while the first one has
\* not run yet.
C8_Witness ==
    /\ pc = "collecting"
    /\ futures[<<0, 0>>].state = "pending"
    /\ TaskSucceeded(<<0, 0>>)
    /\ futures[<<NumRows - 1, NumCols - 1>>].state = "collected"
    /\ ~IsZero(<<NumRows - 1, NumCols - 1>>)

\* The cells in which two output Datasets differ.
Changed(ds1, ds2) == {c \in Cells : \E f \in OutputFields : ds1[f][c] # ds2[f][c]}

\* C9: no worker task writes the output fields (a task only leaves its
\* (i, j, scores) in its future); the orchestrator alone writes, one
\* collected result at a time, and a cell is written for one task only.
C9_OnlyOrchestratorWrites ==
    /\ [](\A c \in Cells : written[c] \subseteq {c})
    /\ [][ pc = "collecting"
             => /\ (\E c \in Cells : futures[c].state = "pending"
                                     /\ futures'[c].state = "finished")
                      => /\ results_ds' = results_ds
                         /\ \E c \in Cells :
                                /\ futures'[c].state = "finished"
                                /\ futures'[c].result.i = c[1]
                                /\ futures'[c].result.j = c[2]
                /\ results_ds' # results_ds
                      => \E c \in Cells :
                             /\ futures[c].state = "finished"
                             /\ futures'[c].state = "collected"
                             /\ \A d \in Cells \ {c} : futures'[d] = futures[d]
                             /\ Changed(results_ds, results_ds') = {c} ]_vars

\* Two tasks were collected and each one's scores went to its own cell.
C9_Witness ==
    /\ pbar >= 2
    /\ Cardinality({c \in Cells : written[c] = {c} /\ ~IsZero(c)}) >= 2

\* C10: a grid evaluation whose mask has no True cell returns an all-zero
\* bundle, logs a warning, raises nothing and submits no task.
C10_EmptyMaskReturnsZeros ==
    Active = {}
        => /\ \A c \in Cells : futures[c].state = "none"
           /\ pc \in {"idle", "returned"}
           /\ log.error = 0
           /\ GridReturned => /\ results_ds = ZeroDataset
                              /\ log.warning = 1
                              /\ pbar = 0

\* The evaluation of an all-False mask has returned.
C10_Witness ==
    /\ GridReturned
    /\ Active = {}
    /\ results_ds = ZeroDataset

----------------------------------------------------------------------------
(* Claims about the helper methods, checked under SpecFn. *)

Answered(fn) == call.fn = fn /\ result.done

\* The high-cloud value the search sees at sample k of the ray: the
\* interpolated value inside the extent, the fill value 0 outside of it.
SampledHcc(k) ==
    IF call.ray.samples[k].kind = "inside" THEN call.ray.samples[k].v ELSE Q0
BelowThreshold(k) == QLt(SampledHcc(k), Q(1, 10))

\* C11: the boundary search returns the smallest sampled distance step,
\* 2*step, ..., max_distance whose sample is below clear_threshold, also when
\* later samples are cloudy again, and max_search_distance_km when no sample
\* is below it.
C11_FirstCrossing ==
    (Answered("find_cloud_boundary_distance") /\ call.ray.ok)
        => IF \E k \in 1..num_steps : BelowThreshold(k)
           THEN \E k \in 1..num_steps :
                    /\ BelowThreshold(k)
                    /\ \A m \in 1..(k - 1) : ~BelowThreshold(m)
                    /\ result.km = k * SEARCH_STEP_KM
           ELSE result.km = MAX_SEARCH_DISTANCE_KM

\* The search has answered 200 km on a ray that is clear at 200-210 km,
\* cloudy again behind, and clear once more at 350 km.
C11_Witness ==
    /\ Answered("find_cloud_boundary_distance")
    /\ call.ray = MkRayOf(Q(1, 2), {20, 21, 35}, Q(5, 100), num_steps + 1)
    /\ result.km = 200

\* C12: when the batched interpolation along the ray fails, the search
\* returns search_step_km and raises nothing.
C12_FailedInterpolationGivesStep ==
    (Answered("find_cloud_boundary_distance") /\ ~call.ray.ok)
        => /\ result.km = SEARCH_STEP_KM
           /\ result.raised = "none"

\* The search has answered for a ray whose interpolation raised.
C12_Witness ==
    /\ Answered("find_cloud_boundary_distance")
    /\ call.ray = FailedRay
    /\ result.km = 10

\* C13: sampling a field at a point never raises: a point outside the
\* covered extent yields the fill value 0.0 (no extrapolation), and an
\* interpolation failure yields 0.0.
C13_SamplingNeverRaises ==
    Answered("get_value_at_point")
        => /\ result.raised = "none"
           /\ call.sample.kind \in {"outside", "error"} => result.q = Q0

\* The sampler has answered 0 for a point outside the extent whose nearest
\* node holds 0.5.
C13_Witness ==
    /\ Answered("get_value_at_point")
    /\ call.sample = OutsideNear(Q(1, 2))
    /\ result.q = Q0

\* C14: score_boundary is the triangle: 0 at distance 0, rising linearly to
\* 1 at 400 km, falling linearly to 0 at 500 km, 0 at or beyond 500 km, and
\* never negative.
C14_TriangularBoundaryScore ==
    Answered("score_from_boundary_distance")
        => LET d == call.km
           IN  /\ d = 0 => result.q = Q0
               /\ d <= 400 => result.q = Q(d, 400)
               /\ (400 <= d /\ d <= 500) => result.q = Q(500 - d, 100)
               /\ d >= 500 => result.q = Q0
               /\ QLe(Q0, result.q)

\* A distance on the falling side of the triangle was scored.
C14_Witness ==
    /\ Answered("score_from_boundary_distance")
    /\ call.km = 450
    /\ result.q = Q(1, 2)

InClosed(lo, x, hi) == QLe(lo, x) /\ QLe(x, hi)
InLeftOpen(lo, x, hi) == QLt(lo, x) /\ QLe(x, hi)
InRightOpen(lo, x, hi) == QLe(lo, x) /\ QLt(x, hi)

\* C15: score_hcc maps [0.4,0.8] to 1.0, (0.8,1.0] to 0.7, [0.1,0.4) to 0.6
\* and [0,0.1) to 0.1.
C15_HccTable ==
    Answered("score_from_hcc")
        => LET x == call.q
           IN  /\ InClosed(Q(4, 10), x, Q(8, 10)) => result.q = Q1
               /\ InLeftOpen(Q(8, 10), x, Q1) => result.q = Q(7, 10)
               /\ InRightOpen(Q(1, 10), x, Q(4, 10)) => result.q = Q(6, 10)
               /\ InRightOpen(Q0, x, Q(1, 10)) => result.q = Q(1, 10)

\* hcc = 0.4, the closed end of the best band, was scored 1.0.
C15_Witness ==
    /\ Answered("score_from_hcc")
    /\ call.q = Q(4, 10)
    /\ result.q = Q1

\* C16: score_mcc maps [0.2,0.5] to 1.0, (0.5,0.8] to 0.7, (0.8,1.0] to 0.3
\* and [0,0.2) to 0.2.
C16_MccTable ==
    Answered("score_from_mcc")
        => LET x == call.q
           IN  /\ InClosed(Q(2, 10), x, Q(5, 10)) => result.q = Q1
               /\ InLeftOpen(Q(5, 10), x, Q(8, 10)) => result.q = Q(7, 10)
               /\ InLeftOpen(Q(8, 10), x, Q1) => result.q = Q(3, 10)
               /\ InRightOpen(Q0, x, Q(2, 10)) => result.q = Q(2, 10)

\* mcc = 0.8, the closed end of the 0.7 band, was scored 0.7.
C16_Witness ==
    /\ Answered("score_from_mcc")
    /\ call.q = Q(8, 10)
    /\ result.q = Q(7, 10)

\* C17: score_lcc maps [0,0.1] to 1.0, (0.1,0.3] to 0.6, (0.3,0.5] to 0.1
\* and (0.5,1.0] to 0.0.
C17_LccTable ==
    Answered("score_from_lcc")
        => LET x == call.q
           IN  /\ InClosed(Q0, x, Q(1, 10)) => result.q = Q1
               /\ InLeftOpen(Q(1, 10), x, Q(3, 10)) => result.q = Q(6, 10)
               /\ InLeftOpen(Q(3, 10), x, Q(5, 10)) => result.q = Q(1, 10)
               /\ InLeftOpen(Q(5, 10), x, Q1) => result.q = Q0

\* lcc = 0.3, the closed end of the 0.6 band, was scored 0.6.
C17_Witness ==
    /\ Answered("score_from_lcc")
    /\ call.q = Q(3, 10)
    /\ result.q = Q(6, 10)

----------------------------------------------------------------------------
(* Further claims about calculate_for_point, checked under SpecPoint. *)

\* C18: the scoring model has a score_aod550 factor, worth 1.0, 0.5 or 0.0
\* by the band of the aerosol optical depth, and score_aod550 is a factor
\* name a caller may request.
C18_AodFactorRequestable ==
    (Called /\ factors = {"score_aod550"} /\ point.sun_ok)
        => /\ Returned
           /\ "score_aod550" \in DOMAIN ret.scores
           /\ ret.scores.score_aod550 \in {Q1, Q(1, 2), Q0}

----------------------------------------------------------------------------
(* Claims about the constructor, checked under SpecInit. *)

PositiveWeightsGiven ==
    \A k \in DOMAIN ctor.weights : QLt(Q0, ctor.weights[k])

\* C19: after construction the quality-factor weights sum to 1, for every
\* positive weight set given to the constructor and for the defaults.
C19_WeightsSumToOne ==
    (constructed = "yes" /\ PositiveWeightsGiven)
        => QSum(weights, DOMAIN weights) = Q1

\* C20: constructing the engine with a dataset that lacks one of hcc, mcc,
\* lcc or aod550 fails at construction.
C20_MissingFieldRejected ==
    (constructed # "no" /\ ~(InputFields \subseteq ctor.data_vars))
        => constructed = "KeyError"

----------------------------------------------------------------------------
(* Further claims about the helper methods, checked under SpecFn. *)

OutOfExtent(k) == call.ray.samples[k].kind = "outside"
InExtentCloudy(k) ==
    /\ call.ray.samples[k].kind = "inside"
    /\ ~QLt(call.ray.samples[k].v, Q(1, 10))

\* The ray leaves the covered extent at sample k, and every sample before
\* it is inside the extent and cloudy.
LeavesExtentAt(k) ==
    /\ OutOfExtent(k)
    /\ \A m \in 1..(k - 1) : InExtentCloudy(m)

\* C30 as stated: a ray that leaves the covered extent before meeting an
\* in-extent clear sample has its boundary at the first out-of-extent sample
\* distance, never at max_search_distance_km, and the search returns
\* max_search_distance_km only when all samples are inside the extent and
\* cloudy.
C30_ExtentEdgeNeverAtHorizon ==
    (Answered("find_cloud_boundary_distance") /\ call.ray.ok)
        => /\ \A k \in 1..num_steps :
                  LeavesExtentAt(k)
                      => /\ result.km = k * SEARCH_STEP_KM
                         /\ result.km # MAX_SEARCH_DISTANCE_KM
           /\ result.km = MAX_SEARCH_DISTANCE_KM
                  => \A k \in 1..num_steps : InExtentCloudy(k)

\* C30 as amended: the boundary of such a ray is at the first out-of-extent
\* sample distance (which is max_search_distance_km when that sample is the
\* last one), and the search returns max_search_distance_km only when all
\* samples before the last one are inside the extent and cloudy.
C30_ExtentEdgeIsBoundary ==
    (Answered("find_cloud_boundary_distance") /\ call.ray.ok)
        => /\ \A k \in 1..num_steps :
                  LeavesExtentAt(k) => result.km = k * SEARCH_STEP_KM
           /\ result.km = MAX_SEARCH_DISTANCE_KM
                  => \A k \in 1..(num_steps - 1) : InExtentCloudy(k)

\* The search has answered 150 km for an overcast ray that leaves the
\* extent at 150 km.
C30_Witness ==
    /\ Answered("find_cloud_boundary_distance")
    /\ call.ray = MkRayOf(Q(1, 2), {}, Q(5, 100), 15)
    /\ result.km = 150

----------------------------------------------------------------------------
(* Claims about the factor subset, checked under SpecPoint. *)

\* The weight-normalised average of the requested quality factors' scores.
RequestedQualityAverage(scores) ==
    LET used == {f \in {"score_boundary", "score_hcc"} :
                    f \in factors /\ f \in DOMAIN weights}
        total == QSum(weights, used)
    IN  IF QLt(Q0, total)
        THEN QDiv(QSum([f \in used |-> QMul(scores[f], weights[f])], used),
                  total)
        ELSE Q0

\* C29: the requested factor subset changes only final_score: the four
\* sub-scores are reported with the values the full factor list gives, a
\* subset with no weighted quality factor gives final_score 0, and a subset
\* with no penalty factor (score_mcc, score_lcc) gives a penalty product of
\* 1, final_score being the quality score itself.
C29_SubsetChangesOnlyFinalScore ==
    (Called /\ Returned /\ ValidFactors)
        => /\ \A f \in ALL_FACTORS :
                  /\ f \in DOMAIN ret.scores
                  /\ ret.scores[f]
                         = calculate_for_point(point, ALL_FACTORS, weights).scores[f]
           /\ factors \cap {"score_boundary", "score_hcc"} = {}
                  => ret.scores.final_score = Q0
           /\ (factors \cap {"score_mcc", "score_lcc"} = {} /\ ~LocalHccClear)
                  => ret.scores.final_score = RequestedQualityAverage(ret.scores)

\* Only score_boundary was requested at a point under heavy low cloud: the
\* low-cloud score 0 is reported and final_score is the boundary score.
C29_Witness ==
    /\ Called /\ Returned /\ ~LocalHccClear
    /\ factors = {"score_boundary"}
    /\ ret.scores.score_lcc = Q0
    /\ ret.scores.score_hcc = Q1
    /\ QLt(Q0, ret.scores.final_score)
    /\ ret.scores.final_score = ret.scores.score_boundary

----------------------------------------------------------------------------
(* Further claims about calculate_for_grid, checked under SpecGrid. *)

\* The local high-cloud value of cell c, and whether the ray of cell c
\* meets a sample below the threshold within the search horizon.
LocalHcc(c) ==
    IF weather_data[c].hcc.kind = "inside" THEN weather_data[c].hcc.v ELSE Q0
BoundaryInsideHorizon(c) ==
    /\ weather_data[c].ray.ok
    /\ \E k \in 1..num_steps :
           \/ weather_data[c].ray.samples[k].kind = "outside"
           \/ QLt(weather_data[c].ray.samples[k].v, Q(1, 10))

\* The scenario: all factors, default weights, every cell active, mcc = 0.3
\* and lcc = 0.05 at every cell, the sun position computable at every cell.
UniformScenario ==
    /\ factors = ALL_FACTORS
    /\ weights = DEFAULT_WEIGHTS
    /\ Active = Cells
    /\ \A c \in Cells :
           /\ weather_data[c].mcc = Inside(Q(3, 10))
           /\ weather_data[c].lcc = Inside(Q(5, 100))
           /\ weather_data[c].sun_ok

\* C25: in the uniform scenario every cell whose hcc is at least
\* clear_threshold gets final_score > 0 wherever its cloud boundary is found
\* inside the search horizon, and every cell whose hcc is below
\* clear_threshold gets final_score exactly 0.
C25_ScenarioScores ==
    (GridReturned /\ UniformScenario)
        => \A c \in Cells :
               /\ QLt(LocalHcc(c), Q(1, 10))
                     => results_ds["final_score"][c] = Float32(Q0)
               /\ (~QLt(LocalHcc(c), Q(1, 10)) /\ BoundaryInsideHorizon(c))
                     => QLt(Q0, results_ds["final_score"][c].q)

\* The scenario has returned with a clear cell at 0 beside a cell under
\* high cloud whose score is positive.
C25_Witness ==
    /\ GridReturned /\ UniformScenario
    /\ \E c \in Cells :
           /\ LocalHcc(c) = Q0
           /\ results_ds["final_score"][c] = Float32(Q0)
    /\ \E c \in Cells :
           /\ LocalHcc(c) = Q(1, 2)
           /\ BoundaryInsideHorizon(c)
           /\ QLt(Q0, results_ds["final_score"][c].q)

\* C26: every result bundle a grid evaluation returns, the one for an empty
\* active mask included, carries provenance metadata naming the factors
\* used and the UTC instant the input fields represent.
C26_ProvenanceCarried ==
    GridReturned => {"factors_used", "utc_time"} \subseteq attrs

\* C28: after a grid evaluation a cell's score_mcc is greater than 0 if and
\* only if the cell was active and its task succeeded, also when the task
\* took the short-circuit path and final_score is 0.
C28_MccMarksEvaluatedCells ==
    GridReturned
        => \A c \in Cells :
               QLt(Q0, results_ds["score_mcc"][c].q)
                   <=> /\ active_mask[c]
                       /\ futures[c].state = "collected"
                       /\ futures[c].result.raised = "none"

\* The evaluation has returned with an inactive cell, at 0, beside an
\* active cell that was short-circuited: final_score 0, score_mcc positive.
C28_Witness ==
    /\ GridReturned
    /\ \E c \in Cells :
           /\ ~active_mask[c]
           /\ results_ds["score_mcc"][c] = Float32(Q0)
    /\ \E c \in Active :
           /\ QLt(LocalHcc(c), Q(1, 10))
           /\ results_ds["final_score"][c] = Float32(Q0)
           /\ QLt(Q0, results_ds["score_mcc"][c].q)

----------------------------------------------------------------------------
(* Termination of calculate_for_grid, checked under SpecGridFair. *)

\* C27: a grid evaluation with a non-empty active mask terminates: one task
\* is submitted per active cell and none for another cell, every submitted
\* task is collected exactly once whether it succeeded or failed, the
\* progress count reaching the number of active cells, and the result
\* bundle is then returned.
C27_GridTerminates ==
    <>(/\ GridReturned
       /\ \A c \in Cells :
              futures[c].state = IF active_mask[c] THEN "collected" ELSE "none"
       /\ pbar = Cardinality(Active))

\* The evaluation of an all-True mask has returned after a failed task and a
\* successful one were both collected.
C27_Witness ==
    /\ GridReturned
    /\ Active = Cells
    /\ pbar = Cardinality(Cells)
    /\ \E c \in Cells : futures[c].state = "collected" /\ futures[c].result.raised # "none"
    /\ \E c \in Cells : futures[c].state = "collected" /\ futures[c].result.raised = "none"

----------------------------------------------------------------------------
(* Two grid evaluations of the same inputs, checked under SpecGridTwice. *)

\* C21: two grid evaluations with identical inputs (fields, mask, instant,
\* factors) return identical output fields, whatever the scheduling of the
\* tasks in each of them.
C21_SameInputsSameOutput ==
    (GridReturned /\ previous # NoDataset) => results_ds = previous

\* The second evaluation of an all-True mask has returned, one of its tasks
\* having failed and another written a score.
C21_Witness ==
    /\ GridReturned
    /\ previous # NoDataset
    /\ Active = Cells
    /\ \E c \in Cells : futures[c].result.raised # "none" /\ IsZero(c)
    /\ \E c \in Cells : ~IsZero(c) /\ results_ds["final_score"][c] = previous["final_score"][c]

----------------------------------------------------------------------------
(* Claims about the event window mask, checked under SpecMask. *)

MaskReturned == mask_pc = "returned"

\* What the solver gives at cell c for the event asked for.
SolverOutcome(c) ==
    IF mask_call.event = "sunrise"
    THEN mask_call.solver[c].next_rising
    ELSE mask_call.solver[c].next_setting

\* An event instant exists for cell c on the date of the target instant.
EventOnTargetDate(c) ==
    /\ SolverOutcome(c).kind = "time"
    /\ SolverOutcome(c).t \div 86400 = mask_call.target_utc_time \div 86400

SecondsFromTarget(c) ==
    IF SolverOutcome(c).t >= mask_call.target_utc_time
    THEN SolverOutcome(c).t - mask_call.target_utc_time
    ELSE mask_call.target_utc_time - SolverOutcome(c).t

\* C22: the mask marks a cell True if and only if an event instant exists
\* for the cell on the target date and lies at most window_minutes from the
\* target instant; a cell with no event (circumpolar, wrong date, solver
\* failure) is never True.
C22_MaskIsWindow ==
    MaskReturned
        => \A c \in Cells :
               mask_grid[c]
                   <=> /\ EventOnTargetDate(c)
                       /\ SecondsFromTarget(c) <= mask_call.window_minutes * 60

\* The mask for sunrise within 60 minutes of 06:00 has returned: True at a
\* cell whose sunrise is at 05:00:00, False at one where it is at 04:59:59.
C22_Witness ==
    /\ MaskReturned
    /\ mask_call.event = "sunrise"
    /\ mask_call.window_minutes = 60
    /\ mask_call.target_utc_time = At(1, 6, 0, 0)
    /\ \E c \in Cells : mask_grid[c] /\ SolverOutcome(c) = Occurs(At(1, 5, 0, 0))
    /\ \E c \in Cells : ~mask_grid[c] /\ SolverOutcome(c) = Occurs(At(1, 4, 59, 59))

\* C23: the mask is monotone in window_minutes: for the same grid, target
\* instant and event, every cell that is True with window w is True with
\* every window w' >= w.
C23_MaskMonotoneInWindow ==
    (MaskReturned /\ previous # NoDataset)
        => \A c \in Cells : previous[c] => mask_grid[c]

\* The second mask has returned with a cell that was True before and a cell
\* that the wider window added.
C23_Witness ==
    /\ MaskReturned
    /\ previous # NoDataset
    /\ \E c \in Cells : previous[c] /\ mask_grid[c]
    /\ \E c \in Cells : ~previous[c] /\ mask_grid[c]

\* C24: the event time of a cell never raises; it is None when the sun is
\* always up or never up, when the occurrence found lies on another UTC date
\* than the one asked for, and when the solver fails in another way;
\* otherwise it is the instant found, whose date is the date asked for.
C24_EventTimeFailsClosed ==
    /\ mask_pc # "raised"
    /\ mask_pc \in {"loop", "returned"}
          => \A c \in Cells :
                 event_times[c] # Unset
                     => /\ event_times[c].raised = "none"
                        /\ IF EventOnTargetDate(c)
                           THEN /\ event_times[c] = Datetime(SolverOutcome(c).t)
                                /\ event_times[c].t \div 86400
                                       = mask_call.target_utc_time \div 86400
                           ELSE event_times[c] = None

\* The sunset of one cell falls at 23:59:59 of the target date and was
\* returned; that of another falls ten seconds into the next date and was
\* withheld.
C24_Witness ==
    /\ MaskReturned
    /\ mask_call.event = "sunset"
    /\ \E c \in Cells : event_times[c] = Datetime(At(1, 23, 59, 59))
    /\ \E c \in Cells :
           /\ SolverOutcome(c) = Occurs(At(2, 0, 0, 10))
           /\ event_times[c] = None

====
